---- MODULE Spec2Model ----
(***************************************************************************)
(* Model of src/utils/langsmith_monitor.py: the LangSmithAlertHandler      *)
(* callback handler (run timer, usage extractor, threshold evaluation,     *)
(* payload builder and notification dispatch).                             *)
(*                                                                         *)
(* Time is counted in clock ticks of 1/TicksPerSecond second; a reading of *)
(* time.perf_counter() is the variable now.  Python values of unknown      *)
(* shape are records tagged by a field k.                                  *)
(***************************************************************************)
EXTENDS FiniteSets, Integers, Sequences, TLC

VARIABLES
    config,        \* self.config (AlertConfig), read-only after construction
    start_times,   \* self._start_times: run id -> perf_counter reading
    now,           \* the monotonic clock read by time.perf_counter()
    last,          \* what the latest lifecycle callback did (observation)
    threads,       \* concurrent delivery: each thread's callback in progress
    response,      \* extractor study: the response handed to the extractor
    extracted,     \* extractor study: what the extractor returned / raised
    dispatched     \* dispatcher study: the transport's behaviour and what _alert did

vars == <<config, start_times, now, last, threads, response, extracted, dispatched>>

(***************************************************************************)
(* Bounds of the model.                                                    *)
(***************************************************************************)
MaxClock == 5          \* the clock runs from 0 to MaxClock ticks
TicksPerSecond == 2    \* clock resolution: one tick is half a second
MaxGroups == 2         \* longest generations sequence
MaxConcClock == 1      \* the clock of the concurrent study runs to this tick

RunIds == {"r1", "r2"}       \* run ids of the concurrent study
SerialRunIds == {"r1"}       \* run ids of the one-at-a-time study
NoRunId == ""                \* kwargs carries no run_id

(***************************************************************************)
(* Python values.                                                          *)
(***************************************************************************)
Missing == [k |-> "missing"]     \* attribute or key that does not exist
PyNone == [k |-> "none"]
PyStr == [k |-> "str"]           \* some non-empty string such as "abc"
PyFloat == [k |-> "float"]       \* some float that is not an int, e.g. 12.5
EmptyDict == [k |-> "emptydict"]
PyInt(n) == [k |-> "int", n |-> n]
PyBool(b) == [k |-> "bool", n |-> IF b THEN 1 ELSE 0]
PyList(items) == [k |-> "list", items |-> items]

\* getattr(obj, name, None) and dict.get(name): absence reads as None
Read(v) == IF v.k = "missing" THEN PyNone ELSE v

\* Python truthiness, as used by the `or` chains
Truthy(v) ==
    CASE v.k \in {"missing", "none", "emptydict"} -> FALSE
      [] v.k = "list" -> v.items # <<>>
      [] v.k \in {"int", "bool"} -> v.n # 0
      [] OTHER -> TRUE

\* a or b
PyOr(a, b) == IF Truthy(a) THEN a ELSE b

\* isinstance(v, dict)
IsDict(v) == v.k \in {"dict", "emptydict"}

\* a variant that accepts whatever is not None
IsIntNotNone(v) == v.k \notin {"none", "missing"}

\* isinstance(v, int): bool is a subclass of int in Python
IsInt(v) == v.k \in {"int", "bool"}

\* d.get(key) for a value known to be a dict
DictGet(d, key) ==
    IF d.k = "dict" /\ key \in DOMAIN d THEN Read(d[key]) ELSE PyNone

(***************************************************************************)
(* UsageExtractor: LangSmithAlertHandler._extract_total_tokens.            *)
(* A result is [raised, value]: value is PyNone or the accepted total.     *)
(***************************************************************************)
Returned(v) == [raised |-> FALSE, value |-> v]
RaisedTypeError == [raised |-> TRUE, value |-> PyNone]

\* `for x in v` works: lists, and strings and dicts (which yield strings)
Iterable(v) == v.k \in {"list", "str", "dict", "emptydict"}

\* the elements `for x in v` yields; a string or a dict yields strings
Elements(v) == IF v.k = "list" THEN v.items ELSE <<PyStr>>

\* getattr(obj, name, None)
GetAttr(obj, name) ==
    IF obj.k = "obj" /\ name \in DOMAIN obj THEN Read(obj[name]) ELSE PyNone

\* a variant that looks at "usage" before "token_usage"
OutputTotalUsageFirst(resp) ==
    LET llm_output == PyOr(GetAttr(resp, "llm_output"), EmptyDict)
    IN  IF IsDict(llm_output)
        THEN LET usage == PyOr(PyOr(DictGet(llm_output, "usage"),
                                    DictGet(llm_output, "token_usage")),
                               EmptyDict)
                 total == IF IsDict(usage)
                          THEN DictGet(usage, "total_tokens")
                          ELSE PyNone
             IN  IF IsInt(total) THEN total ELSE PyNone
        ELSE PyNone

\* lines 85-90: the total found in llm_output, or PyNone
OutputTotal(resp) ==
    LET llm_output == PyOr(GetAttr(resp, "llm_output"), EmptyDict)
    IN  IF IsDict(llm_output)
        THEN LET usage == PyOr(PyOr(DictGet(llm_output, "token_usage"),
                                    DictGet(llm_output, "usage")),
                               EmptyDict)
                 total == IF IsDict(usage)
                          THEN DictGet(usage, "total_tokens")
                          ELSE PyNone
             IN  IF IsInt(total) THEN total ELSE PyNone
        ELSE PyNone

\* lines 95-100: the total carried by one generation, or PyNone
GenerationTotal(generation) ==
    LET message == GetAttr(generation, "message")
        usage_metadata == GetAttr(message, "usage_metadata")
    IN  IF IsDict(usage_metadata)
        THEN LET total == DictGet(usage_metadata, "total_tokens")
             IN  IF IsInt(total) THEN total ELSE PyNone
        ELSE PyNone

\* lines 94-100: the inner loop from position i; PyNone when the loop ends
RECURSIVE ScanGroup(_, _)
ScanGroup(gens, i) ==
    IF i > Len(gens) THEN PyNone
    ELSE LET total == GenerationTotal(gens[i])
         IN  IF total.k # "none" THEN total ELSE ScanGroup(gens, i + 1)

\* lines 93-100: the outer loop from position i
RECURSIVE ScanGenerations(_, _)
ScanGenerations(groups, i) ==
    IF i > Len(groups) THEN Returned(PyNone)
    ELSE IF ~Iterable(groups[i]) THEN RaisedTypeError
    ELSE LET total == ScanGroup(Elements(groups[i]), 1)
         IN  IF total.k # "none" THEN Returned(total)
             ELSE ScanGenerations(groups, i + 1)

\* lines 84-102
ExtractTotalTokens(resp) ==
    LET total == OutputTotal(resp)
    IN  IF total.k # "none" THEN Returned(total)
        ELSE LET generations == PyOr(GetAttr(resp, "generations"), PyList(<<>>))
             IN  IF ~Iterable(generations) THEN RaisedTypeError
                 ELSE ScanGenerations(Elements(generations), 1)

(***************************************************************************)
(* AlertPayloadBuilder: LangSmithAlertHandler._build_payload.              *)
(***************************************************************************)
TwoDigits(c) == IF c < 10 THEN "0" \o ToString(c) ELSE ToString(c)

\* f"{duration:.2f}" for a duration of d clock ticks: the decimal expansion
\* rounded to two places (ties, which are exact binary fractions, to even)
FormatMagnitude(d) ==
    LET whole == d \div TicksPerSecond
        scaled == (d % TicksPerSecond) * 100
        low == scaled \div TicksPerSecond
        rest == scaled % TicksPerSecond
        up == 2 * rest > TicksPerSecond
              \/ (2 * rest = TicksPerSecond /\ low % 2 = 1)
        cents == IF up THEN low + 1 ELSE low
    IN  IF cents = 100
        THEN ToString(whole + 1) \o ".00"
        ELSE ToString(whole) \o "." \o TwoDigits(cents)

FormatSeconds(d) ==
    IF d < 0 THEN "-" \o FormatMagnitude(-d) ELSE FormatMagnitude(d)

\* f"{total_tokens}"
FormatTokens(t) ==
    IF t.k = "bool" THEN (IF t.n = 1 THEN "True" ELSE "False") ELSE ToString(t.n)

LatencyLine(duration) == "Latency: " \o FormatSeconds(duration.n) \o "s"
TokenLine(total_tokens) == "Total tokens: " \o FormatTokens(total_tokens)

\* a variant that leaves the latency out of the body
BodyLinesWithoutLatency(reason, duration, total_tokens) ==
    <<"Reason: " \o reason>>
    \o (IF total_tokens.k # "none" THEN <<TokenLine(total_tokens)>> ELSE <<>>)

\* a variant that leaves the token count out of the body
BodyLinesWithoutTokens(reason, duration, total_tokens) ==
    <<"Reason: " \o reason>>
    \o (IF duration.k # "none" THEN <<LatencyLine(duration)>> ELSE <<>>)

\* lines 126-130: the ordered lines of the body
BodyLines(reason, duration, total_tokens) ==
    <<"Reason: " \o reason>>
    \o (IF duration.k # "none" THEN <<LatencyLine(duration)>> ELSE <<>>)
    \o (IF total_tokens.k # "none" THEN <<TokenLine(total_tokens)>> ELSE <<>>)

\* "\n".join(lines)
RECURSIVE JoinLines(_)
JoinLines(lines) ==
    IF Len(lines) = 0 THEN ""
    ELSE IF Len(lines) = 1 THEN lines[1]
    ELSE lines[1] \o "\n" \o JoinLines(Tail(lines))

\* lines 119-132
BuildPayload(reason, duration, total_tokens) ==
    [title |-> "LangSmith alert: " \o reason,
     body |-> JoinLines(BodyLines(reason, duration, total_tokens))]

(***************************************************************************)
(* NotificationDispatcher: _alert, _smtp_configured, _send_email,          *)
(* _send_webhook.  The transport's behaviour is the input net:             *)
(*   net.post  what requests.post / raise_for_status does                  *)
(*   net.smtp  the step of the SMTP session that fails, or "none"          *)
(* A channel result is [ops, logs, raised]: the outbound calls made, the   *)
(* warnings logged, and whether an exception leaves the function.          *)
(***************************************************************************)
PostOutcomes == {"ok", "http_error", "transport_error"}
SmtpFailures == {"none", "connect", "starttls", "login", "send_message", "quit"}

\* a variant that requires the host only
SmtpConfiguredHostOnly(cfg) == cfg.smtp_host # ""

\* lines 134-139: all([smtp_host, smtp_from, smtp_to])
SmtpConfigured(cfg) == cfg.smtp_host # "" /\ cfg.smtp_from # "" /\ cfg.smtp_to # ""

\* a variant that authenticates before the TLS upgrade
SessionStepsLoginFirst(cfg) ==
    (IF cfg.smtp_username # "" /\ cfg.smtp_password # "" THEN <<"login">> ELSE <<>>)
    \o (IF cfg.smtp_use_tls THEN <<"starttls">> ELSE <<>>)
    \o <<"send_message">>

\* lines 149-153: the calls made on the open connection, in program order
SessionSteps(cfg) ==
    (IF cfg.smtp_use_tls THEN <<"starttls">> ELSE <<>>)
    \o (IF cfg.smtp_username # "" /\ cfg.smtp_password # "" THEN <<"login">> ELSE <<>>)
    \o <<"send_message">>

\* the steps run until the first one that raises (that one included)
RECURSIVE RunSteps(_, _)
RunSteps(steps, failing) ==
    IF steps = <<>> THEN <<>>
    ELSE IF Head(steps) = failing THEN <<Head(steps)>>
    ELSE <<Head(steps)>> \o RunSteps(Tail(steps), failing)

\* a variant without the with block: QUIT and close only after a full session
SendEmailUnmanaged(cfg, payload, net) ==
    IF net.smtp = "connect"
    THEN [ops |-> <<"connect">>, logs |-> <<>>, raised |-> TRUE]
    ELSE LET done == RunSteps(SessionSteps(cfg), net.smtp)
             failed == done # <<>> /\ done[Len(done)] = net.smtp
         IN  [ops |-> <<"connect">> \o done
                      \o (IF failed THEN <<>> ELSE <<"quit", "close">>),
              logs |-> <<>>,
              raised |-> failed \/ net.smtp = "quit"]

\* lines 141-153: smtplib.SMTP(...) as a context manager; __exit__ sends QUIT
\* and closes the socket, and no except clause surrounds the block
SendEmail(cfg, payload, net) ==
    IF net.smtp = "connect"
    THEN [ops |-> <<"connect">>, logs |-> <<>>, raised |-> TRUE]
    ELSE LET done == RunSteps(SessionSteps(cfg), net.smtp)
             failed == done # <<>> /\ done[Len(done)] = net.smtp
         IN  [ops |-> <<"connect">> \o done \o <<"quit", "close">>,
              logs |-> <<>>,
              raised |-> failed \/ net.smtp = "quit"]

\* a variant whose except clause is missing
SendWebhookUncaught(cfg, payload, net) ==
    IF cfg.webhook_url = ""
    THEN [ops |-> <<>>, logs |-> <<"webhook_not_configured">>, raised |-> FALSE]
    ELSE [ops |-> <<"post">>, logs |-> <<>>, raised |-> net.post # "ok"]

\* lines 155-172
SendWebhook(cfg, payload, net) ==
    IF cfg.webhook_url = ""
    THEN [ops |-> <<>>, logs |-> <<"webhook_not_configured">>, raised |-> FALSE]
    ELSE IF net.post = "ok"
    THEN [ops |-> <<"post">>, logs |-> <<>>, raised |-> FALSE]
    ELSE [ops |-> <<"post">>, logs |-> <<"webhook_failed">>, raised |-> FALSE]

\* a variant that selects the channel by what is configured
RouteByCompleteness(cfg, payload, net) ==
    IF cfg.webhook_url # "" THEN SendWebhook(cfg, payload, net)
    ELSE IF SmtpConfigured(cfg) THEN SendEmail(cfg, payload, net)
    ELSE [ops |-> <<>>, logs |-> <<>>, raised |-> FALSE]

\* lines 109-117: the channel selected by notify_mode
Route(cfg, payload, net) ==
    IF cfg.notify_mode = "webhook" THEN SendWebhook(cfg, payload, net)
    ELSE IF cfg.notify_mode = "smtp"
    THEN IF ~SmtpConfigured(cfg)
         THEN [ops |-> <<>>, logs |-> <<"smtp_not_configured">>, raised |-> FALSE]
         ELSE SendEmail(cfg, payload, net)
    ELSE [ops |-> <<>>, logs |-> <<>>, raised |-> FALSE]

\* lines 104-117: one dispatch
Alert(cfg, reason, duration, total_tokens, net) ==
    LET payload == BuildPayload(reason, duration, total_tokens)
        sent == Route(cfg, payload, net)
    IN  [reason |-> reason,
         title |-> payload.title,
         body |-> payload.body,
         lines |-> BodyLines(reason, duration, total_tokens),
         ops |-> sent.ops,
         logs |-> <<"alert">> \o sent.logs,
         raised |-> sent.raised]

(***************************************************************************)
(* RunTimer: on_llm_start's insert and _pop_duration.                      *)
(***************************************************************************)
Seconds(ticks) == [k |-> "seconds", n |-> ticks]

\* a variant that keeps the first start of a run id (dict.setdefault)
RecordStartKeepFirst(times, run_id, t) ==
    [r \in DOMAIN times \cup {run_id} |->
        IF r \in DOMAIN times THEN times[r] ELSE t]

\* line 56: self._start_times[str(run_id)] = time.perf_counter()
RecordStart(times, run_id, t) ==
    [r \in DOMAIN times \cup {run_id} |-> IF r = run_id THEN t ELSE times[r]]

\* line 80: run_id in self._start_times
HasStart(times, run_id) == run_id \in DOMAIN times

\* a variant that reads the entry and leaves it in the map
DictPeek(times, run_id) ==
    IF run_id \in DOMAIN times
    THEN [raised |-> "none", value |-> times[run_id], times |-> times]
    ELSE [raised |-> "KeyError", value |-> 0, times |-> times]

\* line 81: self._start_times.pop(run_id), which raises KeyError on a missing key
DictPop(times, run_id) ==
    IF run_id \in DOMAIN times
    THEN [raised |-> "none", value |-> times[run_id],
          times |-> [r \in DOMAIN times \ {run_id} |-> times[r]]]
    ELSE [raised |-> "KeyError", value |-> 0, times |-> times]

\* lines 79-82, run without interruption at clock reading t
PopDuration(times, run_id, t) ==
    IF HasStart(times, run_id)
    THEN LET popped == DictPop(times, run_id)
         IN  [raised |-> popped.raised,
              duration |-> IF popped.raised = "none"
                           THEN Seconds(t - popped.value) ELSE PyNone,
              times |-> popped.times]
    ELSE [raised |-> "none", duration |-> PyNone, times |-> times]

(***************************************************************************)
(* LifecycleHandler: what one callback does, as a record                   *)
(*   kind, run_id   the callback and the run id it read from kwargs        *)
(*   pending        whether the run id had a start when the callback began *)
(*   duration       what _pop_duration returned                            *)
(*   total_tokens   what _extract_total_tokens returned                    *)
(*   error          str(error) of an error callback, "" otherwise          *)
(*   alerts         the calls of _alert, in order                          *)
(*   raised         the exception that left the callback, or "none"        *)
(***************************************************************************)
\* the callbacks that call _pop_duration, and the error callbacks among them
TakeKinds == {"on_llm_end", "on_llm_error", "on_chain_error"}
ErrorKinds == {"on_llm_error", "on_chain_error"}

\* lines 72 and 77: the reason prefix of an error callback
ReasonPrefix(kind) == IF kind = "on_llm_error" THEN "LLM error: " ELSE "Chain error: "

NoEvent ==
    [kind |-> "none", run_id |-> NoRunId, pending |-> FALSE, duration |-> PyNone,
     total_tokens |-> PyNone, error |-> "", alerts |-> <<>>, raised |-> "none"]

AlertRaise(a) == IF a.raised THEN "OSError" ELSE "none"

\* lines 63-64
LatencyExceeded(cfg, duration) ==
    duration.k # "none" /\ duration.n >= cfg.latency_seconds

\* lines 66-67
TokensExceeded(cfg, total_tokens) ==
    total_tokens.k # "none" /\ total_tokens.n >= cfg.token_threshold

\* lines 63-67: the alerts of a success callback; the second `if` is reached
\* only when the first _alert returned
EndAlerts(cfg, duration, total_tokens, net1, net2) ==
    LET first == IF LatencyExceeded(cfg, duration)
                 THEN <<Alert(cfg, "Latency threshold exceeded", duration, total_tokens, net1)>>
                 ELSE <<>>
        stopped == first # <<>> /\ first[1].raised
        second == IF ~stopped /\ TokensExceeded(cfg, total_tokens)
                  THEN <<Alert(cfg, "Token threshold exceeded", duration, total_tokens, net2)>>
                  ELSE <<>>
    IN  first \o second

LastRaise(alerts) ==
    IF alerts = <<>> THEN "none" ELSE AlertRaise(alerts[Len(alerts)])

\* a variant that extracts the tokens before it takes the start
EndTimesExtractFirst(times, t, run_id, resp) ==
    IF ExtractTotalTokens(resp).raised THEN times
    ELSE PopDuration(times, run_id, t).times

\* lines 59-61: the timer map a success callback leaves; the take of line 60
\* precedes the extraction of line 61
EndTimes(times, t, run_id, resp) == PopDuration(times, run_id, t).times

\* lines 58-67
EndEvent(cfg, times, t, run_id, resp, net1, net2) ==
    LET popped == PopDuration(times, run_id, t)
        tokens == ExtractTotalTokens(resp)
        alerts == IF popped.raised # "none" \/ tokens.raised THEN <<>>
                  ELSE EndAlerts(cfg, popped.duration, tokens.value, net1, net2)
    IN  [kind |-> "on_llm_end", run_id |-> run_id,
         pending |-> HasStart(times, run_id),
         duration |-> popped.duration,
         total_tokens |-> IF popped.raised # "none" THEN PyNone ELSE tokens.value,
         error |-> "",
         alerts |-> alerts,
         raised |-> IF popped.raised # "none" THEN popped.raised
                    ELSE IF tokens.raised THEN "TypeError"
                    ELSE LastRaise(alerts)]

\* a variant that gates the error alert on the latency threshold
ErrorEventGated(cfg, times, t, kind, prefix, run_id, error, net) ==
    LET popped == PopDuration(times, run_id, t)
        alerts == IF LatencyExceeded(cfg, popped.duration)
                  THEN <<Alert(cfg, prefix \o error, popped.duration, PyNone, net)>>
                  ELSE <<>>
    IN  [kind |-> kind, run_id |-> run_id,
         pending |-> HasStart(times, run_id),
         duration |-> popped.duration,
         total_tokens |-> PyNone,
         error |-> error,
         alerts |-> alerts,
         raised |-> LastRaise(alerts)]

\* lines 69-72 and 74-77
ErrorEvent(cfg, times, t, kind, prefix, run_id, error, net) ==
    LET popped == PopDuration(times, run_id, t)
        alerts == IF popped.raised # "none" THEN <<>>
                  ELSE <<Alert(cfg, prefix \o error, popped.duration, PyNone, net)>>
    IN  [kind |-> kind, run_id |-> run_id,
         pending |-> HasStart(times, run_id),
         duration |-> popped.duration,
         total_tokens |-> PyNone,
         error |-> error,
         alerts |-> alerts,
         raised |-> IF popped.raised # "none" THEN popped.raised
                    ELSE LastRaise(alerts)]

(***************************************************************************)
(* Inputs: configurations, responses, errors, transport behaviour.         *)
(***************************************************************************)
NotifyModes == {"log", "webhook", "smtp", "pager"}
LatencyChoices == {TicksPerSecond, 2 * TicksPerSecond}   \* 1.0 s and 2.0 s
TokenThresholds == {50}
TokenCounts == {-1, 10, 50}

\* every combination of the fields the dispatcher reads
Configs ==
    [latency_seconds : {TicksPerSecond},
     token_threshold : {50},
     notify_mode : NotifyModes,
     webhook_url : {"", "http://x"},
     smtp_host : {"", "mail.example"},
     smtp_username : {"", "user"},
     smtp_password : {"", "secret"},
     smtp_from : {"", "from@example"},
     smtp_to : {"", "to@example"},
     smtp_use_tls : BOOLEAN]

\* lines 30-45: AlertConfig.from_env() in an empty environment
DefaultConfig ==
    [latency_seconds |-> 5 * TicksPerSecond, token_threshold |-> 50,
     notify_mode |-> "log", webhook_url |-> "", smtp_host |-> "",
     smtp_username |-> "", smtp_password |-> "", smtp_from |-> "",
     smtp_to |-> "", smtp_use_tls |-> TRUE]

\* the configurations of the lifecycle study: every threshold pair with
\* every mode, the channel of the mode completely configured or not
HandlerConfigs ==
    {[latency_seconds |-> l, token_threshold |-> t, notify_mode |-> m,
      webhook_url |-> IF complete THEN "http://x" ELSE "",
      smtp_host |-> "mail.example", smtp_username |-> "user",
      smtp_password |-> "secret",
      smtp_from |-> IF complete THEN "from@example" ELSE "",
      smtp_to |-> "to@example", smtp_use_tls |-> TRUE] :
        l \in LatencyChoices, t \in TokenThresholds, m \in NotifyModes,
        complete \in BOOLEAN}

TotalValues ==
    {Missing, PyStr, PyFloat, PyBool(TRUE)} \cup {PyInt(n) : n \in TokenCounts}

UsageDict(total) == [k |-> "dict", total_tokens |-> total]
UsageValues == {Missing, EmptyDict, PyStr} \cup {UsageDict(t) : t \in TotalValues}

LlmOutputs ==
    {Missing, PyNone, PyStr}
    \cup [k : {"dict"}, token_usage : UsageValues, usage : UsageValues]

\* a generation whose message carries usage_metadata m
Generation(m) == [k |-> "obj", message |-> [k |-> "obj", usage_metadata |-> m]]
NoMessage == [k |-> "obj", message |-> PyNone]

GroupChoices ==
    {PyInt(5),
     PyList(<<>>),
     PyList(<<NoMessage>>),
     PyList(<<Generation(PyStr)>>),
     PyList(<<Generation(UsageDict(PyInt(10)))>>),
     PyList(<<Generation(UsageDict(PyStr)), Generation(UsageDict(PyInt(50)))>>)}

RECURSIVE SeqsUpTo(_, _)
SeqsUpTo(S, n) ==
    IF n = 0 THEN {<<>>}
    ELSE LET shorter == SeqsUpTo(S, n - 1)
         IN  shorter \cup {Append(q, x) : q \in {p \in shorter : Len(p) = n - 1}, x \in S}

GenerationsValues ==
    {Missing, PyInt(5), PyStr} \cup {PyList(q) : q \in SeqsUpTo(GroupChoices, MaxGroups)}

Responses == [k : {"obj"}, llm_output : LlmOutputs, generations : GenerationsValues]

Response(out, gens) == [k |-> "obj", llm_output |-> out, generations |-> gens]
OutputWith(tu, us) == [k |-> "dict", token_usage |-> tu, usage |-> us]

\* the responses delivered to on_llm_end
EventResponses ==
    {Response(Missing, Missing),
     Response(OutputWith(UsageDict(PyInt(10)), Missing), Missing),
     Response(Missing, PyList(<<PyList(<<Generation(UsageDict(PyInt(50)))>>)>>)),
     Response(Missing, PyInt(5))}

ErrorTexts == {"boom", "rate limited"}

\* the transport behaviours that the configured channel can meet
NetOutcomes(cfg) ==
    [post : IF cfg.notify_mode = "webhook" THEN PostOutcomes ELSE {"ok"},
     smtp : IF cfg.notify_mode = "smtp" THEN SmtpFailures ELSE {"none"}]

\* the same for a lifecycle callback: the session fails early, late or not
EventOutcomes(cfg) ==
    {net \in NetOutcomes(cfg) : net.smtp \in {"none", "connect", "send_message"}}

NoTimes == [r \in {} |-> 0]

(***************************************************************************)
(* Spec: lifecycle callbacks delivered one at a time to one handler.       *)
(***************************************************************************)
Idle ==
    /\ threads = <<>>
    /\ response = Missing
    /\ extracted = Missing
    /\ dispatched = Missing

Init ==
    /\ config \in HandlerConfigs
    /\ start_times = NoTimes
    /\ now = 0
    /\ last = NoEvent
    /\ Idle

\* time passes between and during callbacks
Tick ==
    /\ now < MaxClock
    /\ now' = now + 1
    /\ UNCHANGED <<config, start_times, last, threads, response, extracted, dispatched>>

\* lines 53-56
OnLlmStart ==
    \E run_id \in SerialRunIds \cup {NoRunId} :
        /\ start_times' = IF run_id # NoRunId
                          THEN RecordStart(start_times, run_id, now)
                          ELSE start_times
        /\ last' = [NoEvent EXCEPT !.kind = "on_llm_start", !.run_id = run_id,
                                   !.pending = HasStart(start_times, run_id)]
        /\ UNCHANGED <<config, now, threads, response, extracted, dispatched>>

\* lines 58-67
OnLlmEnd ==
    \E run_id \in SerialRunIds \cup {NoRunId}, resp \in EventResponses,
       net1 \in EventOutcomes(config), net2 \in EventOutcomes(config) :
        /\ last' = EndEvent(config, start_times, now, run_id, resp, net1, net2)
        /\ start_times' = EndTimes(start_times, now, run_id, resp)
        /\ UNCHANGED <<config, now, threads, response, extracted, dispatched>>

\* lines 69-72
OnLlmError ==
    \E run_id \in SerialRunIds \cup {NoRunId}, error \in ErrorTexts, net \in EventOutcomes(config) :
        /\ last' = ErrorEvent(config, start_times, now, "on_llm_error", "LLM error: ",
                              run_id, error, net)
        /\ start_times' = PopDuration(start_times, run_id, now).times
        /\ UNCHANGED <<config, now, threads, response, extracted, dispatched>>

\* lines 74-77
OnChainError ==
    \E run_id \in SerialRunIds \cup {NoRunId}, error \in ErrorTexts, net \in EventOutcomes(config) :
        /\ last' = ErrorEvent(config, start_times, now, "on_chain_error", "Chain error: ",
                              run_id, error, net)
        /\ start_times' = PopDuration(start_times, run_id, now).times
        /\ UNCHANGED <<config, now, threads, response, extracted, dispatched>>

Next == Tick \/ OnLlmStart \/ OnLlmEnd \/ OnLlmError \/ OnChainError

Spec == Init /\ [][Next]_vars

(***************************************************************************)
(* SpecExtract: _extract_total_tokens applied to every response shape.     *)
(***************************************************************************)
InitExtract ==
    /\ response \in Responses
    /\ extracted = Missing
    /\ config = DefaultConfig
    /\ start_times = NoTimes
    /\ now = 0
    /\ last = NoEvent
    /\ threads = <<>>
    /\ dispatched = Missing

\* line 61: total_tokens = self._extract_total_tokens(response)
Extract ==
    /\ extracted = Missing
    /\ extracted' = ExtractTotalTokens(response)
    /\ UNCHANGED <<config, start_times, now, last, threads, response, dispatched>>

NextExtract == Extract

SpecExtract == InitExtract /\ [][NextExtract]_vars

(***************************************************************************)
(* SpecDispatch: _alert applied under every configuration and every        *)
(* behaviour of the transport.                                             *)
(***************************************************************************)
DispatchReasons == {"Latency threshold exceeded", "LLM error: boom"}

InitDispatch ==
    /\ config \in Configs
    /\ dispatched = Missing
    /\ start_times = NoTimes
    /\ now = 0
    /\ last = NoEvent
    /\ threads = <<>>
    /\ response = Missing
    /\ extracted = Missing

\* lines 104-117: self._alert(reason, duration, total_tokens)
Dispatch ==
    \E reason \in DispatchReasons, duration \in {PyNone, Seconds(MaxClock)},
       net \in NetOutcomes(config) :
        /\ dispatched' = [net |-> net,
                           alert |-> Alert(config, reason, duration, PyNone, net)]
        /\ UNCHANGED <<config, start_times, now, last, threads, response, extracted>>

NextDispatch == Dispatch

SpecDispatch == InitDispatch /\ [][NextDispatch]_vars

(***************************************************************************)
(* SpecConc: callbacks delivered concurrently by two threads of the host   *)
(* framework to one handler.  A thread switch can fall between any two     *)
(* operations on self._start_times and the clock; each dict operation is   *)
(* itself indivisible.  A thread is a record                               *)
(*   pc        where the thread stands in its callback                     *)
(*   kind, run_id, error   the callback and its arguments                  *)
(*   t         the thread's latest reading of time.perf_counter()          *)
(*   duration  what _pop_duration returned                                 *)
(*   alerts    the calls of _alert it made                                 *)
(*   raised    the exception that left the callback, or "none"             *)
(***************************************************************************)
Threads == {1, 2}

IdleThread ==
    [pc |-> "idle", kind |-> "none", run_id |-> NoRunId, error |-> "", t |-> 0,
     duration |-> PyNone, alerts |-> <<>>, raised |-> "none"]

\* the webhook channel and the SMTP channel, completely configured
ConcConfigs ==
    {c \in HandlerConfigs :
        /\ c.latency_seconds = TicksPerSecond
        /\ c.webhook_url # ""
        /\ c.notify_mode \in {"webhook", "smtp"}}

\* the transport works or fails
ConcOutcomes(cfg) ==
    {net \in NetOutcomes(cfg) : net.post # "transport_error" /\ net.smtp \in {"none", "connect"}}

\* a response without a token count and one whose count meets the threshold
ConcResponses ==
    {Response(Missing, Missing),
     Response(OutputWith(UsageDict(PyInt(50)), Missing), Missing)}

InitConc ==
    /\ config \in ConcConfigs
    /\ start_times = NoTimes
    /\ now = 0
    /\ last = NoEvent
    /\ threads = [th \in Threads |-> IdleThread]
    /\ response = Missing
    /\ extracted = Missing
    /\ dispatched = Missing

TickConc ==
    /\ now < MaxConcClock
    /\ now' = now + 1
    /\ UNCHANGED <<config, start_times, last, threads, response, extracted, dispatched>>

\* the event source calls on_llm_start on thread th, which reads the clock
\* (line 56, right-hand side)
DeliverStart(th) ==
    /\ threads[th].pc = "idle"
    /\ \E run_id \in RunIds :
          threads' = [threads EXCEPT ![th] =
              [IdleThread EXCEPT !.kind = "on_llm_start", !.run_id = run_id,
                                 !.t = now, !.pc = "store"]]
    /\ UNCHANGED <<config, start_times, now, last, response, extracted, dispatched>>

\* line 56, the store into self._start_times
StartStore(th) ==
    /\ threads[th].pc = "store"
    /\ start_times' = RecordStart(start_times, threads[th].run_id, threads[th].t)
    /\ threads' = [threads EXCEPT ![th].t = 0, ![th].pc = "done"]
    /\ UNCHANGED <<config, now, last, response, extracted, dispatched>>

\* the event source calls on_llm_end, on_llm_error or on_chain_error on
\* thread th, which tests the map (line 80: if run_id in self._start_times)
DeliverTake(th) ==
    /\ threads[th].pc = "idle"
    /\ \E kind \in TakeKinds, run_id \in RunIds :
          threads' = [threads EXCEPT ![th] =
              [IdleThread EXCEPT !.kind = kind, !.run_id = run_id,
                  !.error = IF kind \in ErrorKinds THEN "boom" ELSE "",
                  !.pc = IF HasStart(start_times, run_id) THEN "take_clock" ELSE "dispatch"]]
    /\ UNCHANGED <<config, start_times, now, last, response, extracted, dispatched>>

\* line 81, left operand: time.perf_counter()
TakeReadClock(th) ==
    /\ threads[th].pc = "take_clock"
    /\ threads' = [threads EXCEPT ![th].t = now, ![th].pc = "pop"]
    /\ UNCHANGED <<config, start_times, now, last, response, extracted, dispatched>>

\* line 81, right operand and the subtraction
PopStart(th) ==
    /\ threads[th].pc = "pop"
    /\ LET popped == DictPop(start_times, threads[th].run_id)
       IN  /\ start_times' = popped.times
           /\ threads' = [threads EXCEPT ![th] =
                 IF popped.raised # "none"
                 THEN [@ EXCEPT !.raised = popped.raised, !.t = 0, !.pc = "done"]
                 ELSE [@ EXCEPT !.duration = Seconds(threads[th].t - popped.value),
                                !.t = 0, !.pc = "dispatch"]]
    /\ UNCHANGED <<config, now, last, response, extracted, dispatched>>

\* lines 61-67 of on_llm_end; line 72 of on_llm_error; line 77 of on_chain_error
DispatchAlerts(th) ==
    /\ threads[th].pc = "dispatch"
    /\ \E resp \in ConcResponses, net1 \in ConcOutcomes(config),
          net2 \in ConcOutcomes(config) :
          LET me == threads[th]
              tokens == ExtractTotalTokens(resp)
              alerts ==
                  IF me.kind = "on_llm_end"
                  THEN IF tokens.raised THEN <<>>
                       ELSE EndAlerts(config, me.duration, tokens.value, net1, net2)
                  ELSE <<Alert(config, ReasonPrefix(me.kind) \o me.error,
                               me.duration, PyNone, net1)>>
          IN  threads' = [threads EXCEPT ![th].alerts = alerts, ![th].pc = "done",
                  ![th].raised = IF me.kind = "on_llm_end" /\ tokens.raised
                                 THEN "TypeError" ELSE LastRaise(alerts)]
    /\ UNCHANGED <<config, start_times, now, last, response, extracted, dispatched>>

\* the callback returns (or its exception reaches the event source)
Return(th) ==
    /\ threads[th].pc = "done"
    /\ threads' = [threads EXCEPT ![th] = IdleThread]
    /\ UNCHANGED <<config, start_times, now, last, response, extracted, dispatched>>

NextConc ==
    \/ TickConc
    \/ \E th \in Threads :
          \/ DeliverStart(th)
          \/ StartStore(th)
          \/ DeliverTake(th)
          \/ TakeReadClock(th)
          \/ PopStart(th)
          \/ DispatchAlerts(th)
          \/ Return(th)

SpecConc == InitConc /\ [][NextConc]_vars

(***************************************************************************)
(* Vocabulary of the properties.                                           *)
(***************************************************************************)
\* how many of the alerts carry the reason
CountReason(alerts, reason) ==
    Cardinality({i \in DOMAIN alerts : alerts[i].reason = reason})

\* every latency line and every token line a body can carry
LatencyLines == {LatencyLine(Seconds(d)) : d \in 0..MaxClock}
TokenLines == {TokenLine(t) : t \in {v \in TotalValues : IsInt(v)}}

HasLatencyLine(a) == \E i \in DOMAIN a.lines : a.lines[i] \in LatencyLines
HasTokenLine(a) == \E i \in DOMAIN a.lines : a.lines[i] \in TokenLines

(***************************************************************************)
(* C1: no lifecycle callback ever raises to the event source, whatever the *)
(* notify mode, the configuration and the outcome of the transport.        *)
(* Fails: an SMTP failure and a TypeError of the extractor leave the       *)
(* callback.                                                               *)
(***************************************************************************)
C1_NeverRaises == last.raised = "none"

(***************************************************************************)
(* C2: every invocation-error and pipeline-error callback calls the        *)
(* dispatcher exactly once, whatever the thresholds and whether or not a   *)
(* start was recorded; the reason is "LLM error: " (or "Chain error: ")    *)
(* followed by the error description.                                      *)
(***************************************************************************)
C2_ErrorAlwaysAlerts ==
    last.kind \in ErrorKinds =>
        /\ Len(last.alerts) = 1
        /\ last.alerts[1].reason = ReasonPrefix(last.kind) \o last.error

\* an error for a run that started, faster than the latency threshold
C2_Witness ==
    /\ last.kind = "on_chain_error"
    /\ last.pending
    /\ last.duration.k = "seconds"
    /\ last.duration.n < config.latency_seconds
    /\ Len(last.alerts) = 1
    /\ last.alerts[1].reason = "Chain error: rate limited"

(***************************************************************************)
(* C3: on a success callback a latency alert is dispatched exactly when a  *)
(* duration is available and duration >= latency_seconds, and a token      *)
(* alert exactly when a count was extracted and it is >= token_threshold,  *)
(* the two independently.  Fails when the extractor or the first alert     *)
(* raises.                                                                 *)
(***************************************************************************)
C3_ThresholdsDecide ==
    last.kind = "on_llm_end" =>
        /\ CountReason(last.alerts, "Latency threshold exceeded")
             = IF last.duration.k # "none" /\ last.duration.n >= config.latency_seconds
               THEN 1 ELSE 0
        /\ CountReason(last.alerts, "Token threshold exceeded")
             = IF last.total_tokens.k # "none"
                  /\ last.total_tokens.n >= config.token_threshold
               THEN 1 ELSE 0
        /\ Len(last.alerts)
             = CountReason(last.alerts, "Latency threshold exceeded")
               + CountReason(last.alerts, "Token threshold exceeded")

(***************************************************************************)
(* C4: a success whose duration meets the latency threshold and whose      *)
(* token count is below the token threshold.                               *)
(***************************************************************************)
SlowAndFewTokens ==
    /\ last.kind = "on_llm_end"
    /\ last.duration.k # "none"
    /\ last.duration.n >= config.latency_seconds
    /\ last.total_tokens.k # "none"
    /\ last.total_tokens.n < config.token_threshold

\* the case of the specification: 1.0 s, 2.5 s, 10 tokens, threshold 50
ScenarioCase ==
    /\ SlowAndFewTokens
    /\ config.latency_seconds = TicksPerSecond
    /\ 2 * last.duration.n = 5 * TicksPerSecond
    /\ last.total_tokens = PyInt(10)
    /\ config.token_threshold = 50

\* C4 as stated: exactly one alert, reason "Latency threshold exceeded", its
\* body has the latency line and no token line.
C4_NoTokenLine ==
    SlowAndFewTokens =>
        /\ Len(last.alerts) = 1
        /\ last.alerts[1].reason = "Latency threshold exceeded"
        /\ HasLatencyLine(last.alerts[1])
        /\ ~HasTokenLine(last.alerts[1])

\* C4 amended: exactly one alert, reason "Latency threshold exceeded", its
\* body has the latency line and also the token line, since the body carries
\* the token count whenever one was extracted; in the case of the
\* specification the body is the three lines below.
C4_LatencyAlertCarriesTokens ==
    /\ SlowAndFewTokens =>
        /\ Len(last.alerts) = 1
        /\ last.alerts[1].reason = "Latency threshold exceeded"
        /\ last.alerts[1].title = "LangSmith alert: Latency threshold exceeded"
        /\ HasLatencyLine(last.alerts[1])
        /\ HasTokenLine(last.alerts[1])
    /\ ScenarioCase =>
        last.alerts[1].body
          = "Reason: Latency threshold exceeded\nLatency: 2.50s\nTotal tokens: 10"

C4_Witness ==
    /\ ScenarioCase
    /\ Len(last.alerts) = 1
    /\ last.alerts[1].lines[2] = "Latency: 2.50s"

(***************************************************************************)
(* C5: take-elapsed is at-most-once per recorded start.  In every end or   *)
(* error callback: a run id with a recorded start obtains the duration     *)
(* now - start >= 0 and its entry is removed; a run id without one obtains *)
(* no duration and the take raises nothing; and a take that follows a take *)
(* of the same run id, no start in between, obtains no duration.           *)
(***************************************************************************)
C5_TakeAtMostOnce ==
    [][(last'.kind \in TakeKinds /\ (last' # last \/ start_times' # start_times)) =>
          /\ last'.raised # "KeyError"
          /\ last'.run_id \notin DOMAIN start_times'
          /\ IF last'.run_id \in DOMAIN start_times
             THEN /\ last'.duration = Seconds(now - start_times[last'.run_id])
                  /\ last'.duration.n >= 0
             ELSE last'.duration = PyNone
          /\ (last.kind \in TakeKinds /\ last.run_id = last'.run_id) =>
                last'.duration = PyNone]_vars

\* a take that found a start recorded earlier and removed it
C5_Witness ==
    /\ last.kind \in TakeKinds
    /\ last.pending
    /\ last.duration.k = "seconds"
    /\ last.duration.n > 0
    /\ last.run_id \notin DOMAIN start_times

(***************************************************************************)
(* Dispatcher properties, over the dispatch just made.                     *)
(***************************************************************************)
CountOp(a, op) == Cardinality({i \in DOMAIN a.ops : a.ops[i] = op})

(***************************************************************************)
(* C6: routing is exclusive and selected by notify_mode alone: an HTTP     *)
(* POST only in webhook mode, an SMTP session only in smtp mode, never     *)
(* both, and neither in log mode or an unrecognised mode however complete  *)
(* the webhook and SMTP configuration is.                                  *)
(***************************************************************************)
C6_RoutingByModeOnly ==
    dispatched # Missing =>
        LET a == dispatched.alert
        IN  /\ CountOp(a, "post") > 0 => config.notify_mode = "webhook"
            /\ CountOp(a, "connect") > 0 => config.notify_mode = "smtp"
            /\ ~(CountOp(a, "post") > 0 /\ CountOp(a, "connect") > 0)
            /\ config.notify_mode \notin {"webhook", "smtp"} => a.ops = <<>>

\* log mode with both channels completely configured
C6_Witness ==
    /\ dispatched # Missing
    /\ config.notify_mode = "log"
    /\ config.webhook_url # ""
    /\ config.smtp_host # "" /\ config.smtp_from # "" /\ config.smtp_to # ""
    /\ dispatched.alert.ops = <<>>
    /\ dispatched.alert.logs = <<"alert">>

(***************************************************************************)
(* C7: in webhook mode with a non-empty URL a failing POST (non-success    *)
(* status or transport failure) is absorbed: a warning is logged, nothing  *)
(* is raised, and the POST is attempted exactly once.                      *)
(***************************************************************************)
C7_WebhookFailureAbsorbed ==
    (dispatched # Missing /\ config.notify_mode = "webhook" /\ config.webhook_url # "") =>
        LET a == dispatched.alert
        IN  /\ a.ops = <<"post">>
            /\ ~a.raised
            /\ dispatched.net.post # "ok" => a.logs = <<"alert", "webhook_failed">>

\* the POST answered HTTP 500
C7_Witness ==
    /\ dispatched # Missing
    /\ config.notify_mode = "webhook"
    /\ config.webhook_url = "http://x"
    /\ dispatched.net.post = "http_error"
    /\ dispatched.alert.ops = <<"post">>
    /\ ~dispatched.alert.raised

(***************************************************************************)
(* C8: an incompletely configured channel drops the alert with no outbound *)
(* call and without raising: webhook mode with an empty URL makes no POST, *)
(* smtp mode with an empty host, sender or recipient opens no session.     *)
(***************************************************************************)
C8_IncompleteChannelDropped ==
    dispatched # Missing =>
        LET a == dispatched.alert
            incomplete ==
                \/ config.notify_mode = "webhook" /\ config.webhook_url = ""
                \/ /\ config.notify_mode = "smtp"
                   /\ "" \in {config.smtp_host, config.smtp_from, config.smtp_to}
        IN  incomplete => a.ops = <<>> /\ ~a.raised

\* smtp mode, only the sender missing, a transport that would fail
C8_Witness ==
    /\ dispatched # Missing
    /\ config.notify_mode = "smtp"
    /\ config.smtp_host # "" /\ config.smtp_from = "" /\ config.smtp_to # ""
    /\ dispatched.net.smtp = "connect"
    /\ dispatched.alert.ops = <<>>
    /\ dispatched.alert.logs = <<"alert", "smtp_not_configured">>

(***************************************************************************)
(* C10: the extractor never raises and returns none for every response     *)
(* with an absent or malformed level, that is, every response that holds   *)
(* no integer total where the extractor looks.  Fails: a generations value *)
(* or a generation group that is not iterable raises TypeError.            *)
(***************************************************************************)
UsageHoldsTotal(u) == u.k = "dict" /\ IsInt(u.total_tokens)

OutputHoldsTotal(resp) ==
    /\ resp.llm_output.k = "dict"
    /\ \/ UsageHoldsTotal(resp.llm_output.token_usage)
       \/ UsageHoldsTotal(resp.llm_output.usage)

GenerationHoldsTotal(g) ==
    /\ g.message.k = "obj"
    /\ UsageHoldsTotal(g.message.usage_metadata)

GenerationsHoldTotal(resp) ==
    /\ resp.generations.k = "list"
    /\ \E i \in DOMAIN resp.generations.items :
          LET group == resp.generations.items[i]
          IN  /\ group.k = "list"
              /\ \E j \in DOMAIN group.items : GenerationHoldsTotal(group.items[j])

C10_MalformedGivesNone ==
    (extracted # Missing /\ ~OutputHoldsTotal(response) /\ ~GenerationsHoldTotal(response)) =>
        extracted = Returned(PyNone)

(***************************************************************************)
(* C9: under concurrent delivery the insert and the take-and-remove are    *)
(* atomic with respect to each other: a pending entry is taken by at most  *)
(* one end or error callback and no callback fails for it.  Fails: the     *)
(* membership test and the pop are two operations, so of two concurrent    *)
(* takes of one run id the second pop raises KeyError.                     *)
(***************************************************************************)
C9_TakeNeverFails ==
    \A th \in Threads : threads[th].raised # "KeyError"

\* a step of Spec that is a callback (every callback writes last or the map)
EventStep == last' # last \/ start_times' # start_times

\* both thresholds of the configuration are met by what the callback measured
BothExceeded ==
    /\ last.kind = "on_llm_end"
    /\ last.raised # "TypeError"
    /\ LatencyExceeded(config, last.duration)
    /\ TokensExceeded(config, last.total_tokens)

\* the channel action of the alert failed: the send raised or the POST was
\* logged as failed
DeliveryFailed(a) ==
    a.raised \/ \E i \in DOMAIN a.logs : a.logs[i] = "webhook_failed"

(***************************************************************************)
(* C11: the body of an error alert carries a latency line exactly when the *)
(* run id had a pending start when the error callback arrived (an error    *)
(* with no start still alerts, without a latency line), and it never       *)
(* carries a token line.                                                   *)
(***************************************************************************)
C11_ErrorBodyLines ==
    [][(EventStep /\ last'.kind \in ErrorKinds) =>
          /\ Len(last'.alerts) = 1
          /\ HasLatencyLine(last'.alerts[1]) <=> last'.run_id \in DOMAIN start_times
          /\ ~HasTokenLine(last'.alerts[1])]_vars

C11_Witness ==
    /\ last.kind \in ErrorKinds
    /\ ~last.pending
    /\ Len(last.alerts) = 1
    /\ ~HasLatencyLine(last.alerts[1])
    /\ last.alerts[1].lines = <<"Reason: " \o ReasonPrefix(last.kind) \o last.error>>

(***************************************************************************)
(* C12: a success callback that meets both thresholds dispatches two       *)
(* separate alerts, the latency alert first and the token alert second.    *)
(* Fails: when the SMTP send of the latency alert raises, the callback is  *)
(* left before the token alert.                                            *)
(***************************************************************************)
C12_TwoAlertsInOrder ==
    BothExceeded =>
        /\ Len(last.alerts) = 2
        /\ last.alerts[1].reason = "Latency threshold exceeded"
        /\ last.alerts[2].reason = "Token threshold exceeded"

(***************************************************************************)
(* C17: after on_llm_start for a run id the run id is pending; after       *)
(* on_llm_end, on_llm_error or on_chain_error for a run id the run id has  *)
(* no entry, whether or not it was pending, and also when the extraction   *)
(* of the tokens or the delivery of an alert raised during the callback.   *)
(***************************************************************************)
C17_RunStateMachine ==
    /\ (last.kind = "on_llm_start" /\ last.run_id # NoRunId)
           => last.run_id \in DOMAIN start_times
    /\ last.kind \in TakeKinds => last.run_id \notin DOMAIN start_times

C17_Witness ==
    /\ last.kind = "on_llm_end"
    /\ last.pending
    /\ last.raised = "TypeError"
    /\ last.run_id \notin DOMAIN start_times

(***************************************************************************)
(* C19: a run id has at most one pending start.  A start of a run id that  *)
(* is pending replaces its clock reading and leaves the other entries      *)
(* alone; the next end or error callback measures from the latest start    *)
(* and leaves no entry for the run id.                                     *)
(***************************************************************************)
C19_LastStartWins ==
    [][EventStep =>
          /\ (last'.kind = "on_llm_start" /\ last'.run_id # NoRunId) =>
                /\ DOMAIN start_times' = DOMAIN start_times \cup {last'.run_id}
                /\ start_times'[last'.run_id] = now
                /\ \A r \in DOMAIN start_times \ {last'.run_id} :
                       start_times'[r] = start_times[r]
          /\ (last'.kind \in TakeKinds /\ last'.run_id \in DOMAIN start_times) =>
                /\ last'.duration = Seconds(now - start_times[last'.run_id])
                /\ last'.run_id \notin DOMAIN start_times']_vars

\* a start has replaced an earlier start of the same run id
C19_Witness ==
    /\ last.kind = "on_llm_start"
    /\ last.pending
    /\ now > 0
    /\ last.run_id \in DOMAIN start_times
    /\ start_times[last.run_id] = now

(***************************************************************************)
(* C20: when a success callback meets both thresholds and the channel      *)
(* action of the latency alert fails, the token alert is still dispatched, *)
(* in every notify mode.                                                   *)
(* Fails in notify mode smtp: the exception of the send leaves the         *)
(* callback before the second threshold is looked at.                      *)
(***************************************************************************)
C20_FailureKeepsTokenAlert ==
    (/\ BothExceeded
     /\ Len(last.alerts) >= 1
     /\ DeliveryFailed(last.alerts[1]))
        => \E i \in DOMAIN last.alerts :
               i > 1 /\ last.alerts[i].reason = "Token threshold exceeded"

\* the integer total a usage dict holds, or PyNone
HeldTotal(u) ==
    IF u.k = "dict" /\ u.total_tokens.k \in {"int", "bool"} THEN u.total_tokens ELSE PyNone

\* the integer total a generation record holds, or PyNone
RecordTotal(g) ==
    IF g.k = "obj" /\ g.message.k = "obj" THEN HeldTotal(g.message.usage_metadata)
    ELSE PyNone

\* the groups of a generations value that is a list
GroupsOf(resp) ==
    IF resp.generations.k = "list" THEN resp.generations.items ELSE <<>>

\* the positions <<i, j>> of the generation records that hold an integer total
HitsOf(resp) ==
    UNION {{<<i, j>> : j \in {n \in DOMAIN GroupsOf(resp)[i].items :
                                 RecordTotal(GroupsOf(resp)[i].items[n]).k # "none"}} :
           i \in {m \in DOMAIN GroupsOf(resp) : GroupsOf(resp)[m].k = "list"}}

Before(p, q) == p[1] < q[1] \/ (p[1] = q[1] /\ p[2] <= q[2])

FirstHit(resp) == CHOOSE p \in HitsOf(resp) : \A q \in HitsOf(resp) : Before(p, q)

FirstHitTotal(resp) ==
    LET p == FirstHit(resp) IN RecordTotal(GroupsOf(resp)[p[1]].items[p[2]])

\* the groups that a for loop cannot iterate
BadGroups(resp) == {i \in DOMAIN GroupsOf(resp) : ~Iterable(GroupsOf(resp)[i])}

\* step 1 with "first present wins": token_usage whenever the key is there
PresentUsage(resp) ==
    IF resp.llm_output.k # "dict" THEN Missing
    ELSE IF resp.llm_output.token_usage.k # "missing" THEN resp.llm_output.token_usage
    ELSE resp.llm_output.usage

\* step 1 with "first non-empty wins": token_usage unless it is absent or empty
NonEmptyUsage(resp) ==
    IF resp.llm_output.k # "dict" THEN Missing
    ELSE IF Truthy(resp.llm_output.token_usage) THEN resp.llm_output.token_usage
    ELSE resp.llm_output.usage

\* the chain as stated: step 1, then the first hit of the generations, none
\* otherwise
StatedChain(resp) ==
    IF HeldTotal(PresentUsage(resp)).k # "none" THEN HeldTotal(PresentUsage(resp))
    ELSE IF HitsOf(resp) # {} THEN FirstHitTotal(resp)
    ELSE PyNone

\* the chain as run: the iteration stops with TypeError at a generations
\* value or a group that cannot be iterated and is met before a hit
RunChain(resp) ==
    IF HeldTotal(NonEmptyUsage(resp)).k # "none"
    THEN Returned(HeldTotal(NonEmptyUsage(resp)))
    ELSE IF resp.generations.k # "list"
    THEN (IF Truthy(resp.generations) /\ ~Iterable(resp.generations)
          THEN RaisedTypeError ELSE Returned(PyNone))
    ELSE IF \E i \in BadGroups(resp) : \A p \in HitsOf(resp) : i < p[1]
    THEN RaisedTypeError
    ELSE IF HitsOf(resp) # {} THEN Returned(FirstHitTotal(resp))
    ELSE Returned(PyNone)

(***************************************************************************)
(* C13: the result of the extractor is that of the fixed-order chain: in   *)
(* the output metadata the token-usage sub-field is used whenever it is    *)
(* present (usage only when token-usage is absent) and its total is        *)
(* accepted only if it is an integer; the generations are consulted only   *)
(* if that yields nothing and give the first integer total in iteration    *)
(* order.                                                                  *)
(* Fails: an empty token-usage sub-field gives way to the usage sub-field, *)
(* and the iteration of the generations can raise.                         *)
(***************************************************************************)
C13_FirstPresentWins ==
    extracted # Missing => extracted = Returned(StatedChain(response))

(***************************************************************************)
(* C13, amended: the token-usage sub-field is used unless it is absent or  *)
(* empty, in which case the usage sub-field is used; the generations are   *)
(* consulted only if that yields no integer total and give the first       *)
(* integer total in iteration order, with TypeError when a generations     *)
(* value or a group that cannot be iterated is met before such a total.    *)
(***************************************************************************)
C13_FirstNonEmptyWins ==
    extracted # Missing => extracted = RunChain(response)

\* an empty token_usage gave way to the total of usage
C13_Witness ==
    /\ extracted # Missing
    /\ response.llm_output.k = "dict"
    /\ response.llm_output.token_usage = EmptyDict
    /\ response.llm_output.usage = UsageDict(PyInt(10))
    /\ HitsOf(response) # {}
    /\ extracted = Returned(PyInt(10))

\* the totals a response carries where the extractor looks
CarriedTotals(resp) ==
    (IF resp.llm_output.k = "dict"
     THEN {HeldTotal(resp.llm_output.token_usage), HeldTotal(resp.llm_output.usage)}
     ELSE {})
    \cup {RecordTotal(GroupsOf(resp)[p[1]].items[p[2]]) : p \in HitsOf(resp)}

(***************************************************************************)
(* C18: the token count the extractor returns is never negative: it is     *)
(* none or an integer >= 0.                                                *)
(* Fails: a negative integer total of the response is returned as it is.   *)
(***************************************************************************)
C18_NeverNegative ==
    extracted # Missing =>
        \/ extracted.value.k = "none"
        \/ extracted.value.k \in {"int", "bool"} /\ extracted.value.n >= 0

(***************************************************************************)
(* C18, amended: the token count the extractor returns is none or an       *)
(* integer total that the response carries, unchanged; it is negative      *)
(* only when the response carries that negative total.                     *)
(***************************************************************************)
C18_IntegerOfResponse ==
    extracted # Missing =>
        \/ extracted.value.k = "none"
        \/ /\ extracted.value.k \in {"int", "bool"}
           /\ extracted.value \in CarriedTotals(response)
           /\ extracted.value.n < 0 =>
                  \E t \in CarriedTotals(response) : t.k = "int" /\ t.n < 0

C18_Witness ==
    /\ extracted # Missing
    /\ ~extracted.raised
    /\ extracted.value = PyInt(-1)
    /\ PyInt(-1) \in CarriedTotals(response)

\* a dispatch opened an SMTP session: the connect was made and did not fail
InSession ==
    /\ dispatched # Missing
    /\ CountOp(dispatched.alert, "connect") >= 1
    /\ dispatched.net.smtp # "connect"

HasCredentials == config.smtp_username # "" /\ config.smtp_password # ""

\* the transport makes the TLS upgrade, or the authentication, of this
\* configuration fail
TlsFails == config.smtp_use_tls /\ dispatched.net.smtp = "starttls"
LoginFails == HasCredentials /\ ~TlsFails /\ dispatched.net.smtp = "login"

\* the place of a call in a session
StepRank(op) ==
    CASE op = "connect" -> 0
      [] op = "starttls" -> 1
      [] op = "login" -> 2
      [] op = "send_message" -> 3
      [] op = "quit" -> 4
      [] OTHER -> 5

InStepOrder(ops) ==
    \A i, j \in DOMAIN ops : i < j => StepRank(ops[i]) < StepRank(ops[j])

(***************************************************************************)
(* C14: in every SMTP session the steps occur in the order connect, TLS    *)
(* upgrade, authenticate, send: the TLS upgrade is made iff smtp_use_tls   *)
(* is set and before any authentication, the authentication is made iff    *)
(* smtp_username and smtp_password are both non-empty, and the message is  *)
(* sent at most once and only after those steps.                           *)
(* Fails: when the TLS upgrade raises, no authentication follows although  *)
(* both credentials are set.                                               *)
(***************************************************************************)
C14_StepsAsConfigured ==
    InSession =>
        LET a == dispatched.alert
        IN  /\ InStepOrder(a.ops)
            /\ CountOp(a, "starttls") = 1 <=> config.smtp_use_tls
            /\ CountOp(a, "login") = 1 <=> HasCredentials
            /\ CountOp(a, "send_message") <= 1

(***************************************************************************)
(* C14, amended: in every SMTP session the steps occur in the order        *)
(* connect, TLS upgrade, authenticate, send, and a step that raises ends   *)
(* the session: the TLS upgrade is attempted iff smtp_use_tls is set, the  *)
(* authentication is attempted iff both credentials are non-empty and the  *)
(* TLS upgrade did not fail, and the message is sent at most once, exactly *)
(* when neither of those steps failed.                                     *)
(***************************************************************************)
C14_StepsUntilFailure ==
    InSession =>
        LET a == dispatched.alert
        IN  /\ InStepOrder(a.ops)
            /\ a.ops[1] = "connect"
            /\ CountOp(a, "starttls") = (IF config.smtp_use_tls THEN 1 ELSE 0)
            /\ CountOp(a, "login") = (IF HasCredentials /\ ~TlsFails THEN 1 ELSE 0)
            /\ CountOp(a, "send_message") = (IF TlsFails \/ LoginFails THEN 0 ELSE 1)

\* the TLS upgrade failed in a session that had credentials to log in with
C14_Witness ==
    /\ InSession
    /\ HasCredentials
    /\ TlsFails
    /\ dispatched.alert.ops = <<"connect", "starttls", "quit", "close">>

(***************************************************************************)
(* C15: every SMTP connection that is opened is released on every way out  *)
(* of the session, whether the TLS upgrade, the login and the send succeed *)
(* or fail: when the dispatch has ended no connection is open.             *)
(***************************************************************************)
C15_ConnectionReleased ==
    dispatched # Missing =>
        LET a == dispatched.alert
        IN  /\ CountOp(a, "connect") <= 1
            /\ InSession =>
                  /\ CountOp(a, "close") = 1
                  /\ a.ops[Len(a.ops)] = "close"
            /\ ~InSession => CountOp(a, "close") = 0

\* the login failed and the connection was closed all the same
C15_Witness ==
    /\ InSession
    /\ LoginFails
    /\ dispatched.alert.raised
    /\ dispatched.alert.ops[Len(dispatched.alert.ops)] = "close"
    /\ CountOp(dispatched.alert, "login") = 1

\* the alerts made an outbound call: an HTTP POST or an SMTP connect
MadeOutboundCall(alerts) ==
    \E i \in DOMAIN alerts : alerts[i].ops # <<>>

(***************************************************************************)
(* C16: outbound calls are made only after the timer entry of the run has  *)
(* been released.  A callback makes its HTTP POST or its SMTP session only *)
(* in the part that follows _pop_duration, and when it gets there the      *)
(* timer map holds no entry for its run id: the entry it found has been    *)
(* removed.  The handler has no lock, so none is held.                     *)
(***************************************************************************)
C16_OutboundAfterRelease ==
    [][\A th \in Threads :
          /\ (threads'[th].alerts # threads[th].alerts
                 /\ MadeOutboundCall(threads'[th].alerts))
                => threads[th].pc = "dispatch"
          /\ (threads[th].pc # "dispatch" /\ threads'[th].pc = "dispatch")
                => threads'[th].run_id \notin DOMAIN start_times']_vars

\* a callback that took a start has made its outbound call
C16_Witness ==
    \E th \in DOMAIN threads :
        /\ threads[th].pc = "done"
        /\ threads[th].kind \in TakeKinds
        /\ threads[th].duration.k # "none"
        /\ MadeOutboundCall(threads[th].alerts)
        /\ threads[th].run_id \notin DOMAIN start_times
====
